---- MODULE Spec2Model ----
(***************************************************************************)
(* Model of src/main.py of the Calorico nutrition bot:                     *)
(*   - daily_menu_scheduler, the periodic sweep over the user store        *)
(*     (specification Spec);                                               *)
(*   - the handler table registered in main() and the way the framework's  *)
(*     Application walks it for one update (specification RouterSpec).     *)
(*                                                                         *)
(* Python values are modelled as follows.  A dict is a function whose      *)
(* DOMAIN is the set of keys present, so dict.get(k, default) is Get.      *)
(* Hebrew string literals of the source are transliterated to ASCII; the   *)
(* original literal is quoted in the comment of each definition.           *)
(***************************************************************************)
EXTENDS Integers, Sequences, FiniteSets, TLC

\* ------------------------------------------------------------------ bounds
\* Number of users in the store.
NumUsers == 2
\* Last calendar day of the model (days are 0..MaxDay; -1 is "yesterday").
MaxDay == 1
\* Number of clock hours in a modelled day, starting at 08.
NumHours == 2
\* The per-day history counter saturates here.
MaxCompleted == 2
\* Number of users who talk to the bot while the router is observed.
NumChatUsers == 1

\* ------------------------------------------------------- program constants
\* interval=datetime.timedelta(minutes=10)
SweepIntervalMinutes == 10

Users == 1..NumUsers
ChatUsers == {u \in Users : u <= NumChatUsers}
Days == 0..MaxDay
ClockHours == 8..(7 + NumHours)

\* ------------------------------------------------------------ Python values
\* dict.get(key, default)
Get(d, k, default) == IF k \in DOMAIN d THEN d[k] ELSE default

\* d[key] = value
With(d, k, v) == [x \in (DOMAIN d) \cup {k} |-> IF x = k THEN v ELSE d[x]]

\* a dict without one key (used to build stored records only)
Without(d, k) == [x \in (DOMAIN d) \ {k} |-> d[x]]

\* None where a string is expected (preferred_menu_hour missing)
PyNone == "None"

\* None where a dict or a timestamp is expected
PyNoneValue == [py_none |-> TRUE]

\* "מעדיף לבקש לבד" (prefers to ask manually)
ManualSentinel == "maadif levakesh levad"

\* now.strftime("%H:00"): two-digit hour, minutes dropped
Strftime(now) ==
    IF now.hour < 10 THEN "0" \o ToString(now.hour) \o ":00"
    ELSE ToString(now.hour) \o ":00"

\* now.isoformat(): the timestamp text; modelled by its parsed content
Isoformat(now) == [iso |-> <<now.day, now.hour, now.minute>>]

\* datetime.datetime.fromisoformat(s).date(): raises on anything that is not
\* an ISO timestamp
FromIsoformatDate(s) ==
    IF "iso" \in DOMAIN s THEN [raised |-> FALSE, date |-> s.iso[1]]
    ELSE [raised |-> TRUE, date |-> 0]

\* x is None
IsNone(x) == "py_none" \in DOMAIN x

\* truth value of user_data.get("last_menu_sent"): None and "" are falsy
Truthy(s) == ~IsNone(s) /\ ~("text" \in DOMAIN s /\ s.text = "")

\* {} : the default of user_data.get("flow", {})
EmptyDict == <<>>

\* ---------------------------------------------------------------- variables
VARIABLES
    store,          \* nutrition_db: user id -> user record (a dict)
    clock,          \* wall clock: [day, hour, minute]
    swept,          \* the job of the current 10-minute period has run
    pc,             \* position of daily_menu_scheduler
    now,            \* its local now (read once per sweep; the clock between sweeps)
    all_users,      \* its local all_users (read once per sweep; the store between sweeps)
    idx,            \* position of the for loop in all_users.items() (1 between sweeps)
    oplog,          \* history: calls of the running sweep for the user of its
                    \* current (or just finished) loop iteration, in order
    evaluated,      \* history: users whose loop body the running sweep entered
    result,         \* history: how the current sweep ended
    completedToday, \* history: full send sequences per user on clock.day
    lastSaved,      \* history: the record of the scheduler's last successful save
    sendFailed,     \* history: user -> the clock hour of the first sweep of
                    \* clock.day in which a send to the user failed (0: none)
    session,        \* ConversationHandler: user -> onboarding state or NoSession
    dispatched      \* history: the last update, the session state it met, the
                    \* handler that took it and whether the record was written

vars == <<store, clock, swept, pc, now, all_users, idx, oplog, evaluated,
          result, completedToday, lastSaved, sendFailed, session, dispatched>>

\* ------------------------------------------------- daily_menu_scheduler
\* now.date() and current_hour of a sweep
CurrentDate(n) == n.day
CurrentHour(n) == Strftime(n)

\* Mutant: a missing setup_complete counts as true.
SetupCompleteDefaultTrue(user_data) ==
    Get(Get(user_data, "flow", EmptyDict), "setup_complete", TRUE)

\* not user_data.get("flow", {}).get("setup_complete", False), negated
SetupComplete(user_data) ==
    Get(Get(user_data, "flow", EmptyDict), "setup_complete", FALSE)

\* Mutant: a missing daily_menu_enabled counts as true.
MenuEnabledDefaultTrue(user_data) == Get(user_data, "daily_menu_enabled", TRUE)

\* user_data.get("daily_menu_enabled", False)
MenuEnabled(user_data) == Get(user_data, "daily_menu_enabled", FALSE)

\* Mutant: the hour is not compared.
HourMatchesAny(preferred_hour, n) == preferred_hour # PyNone

\* preferred_hour != current_hour, negated
HourMatches(preferred_hour, n) == preferred_hour = CurrentHour(n)

\* Mutant: the dates are compared with == instead of >=.
AlreadySentOnlyToday(last_menu_sent, n) ==
    /\ Truthy(last_menu_sent)
    /\ ~FromIsoformatDate(last_menu_sent).raised
    /\ FromIsoformatDate(last_menu_sent).date = CurrentDate(n)

\* Mutant: only a date after today blocks the send.
AlreadySentStrictlyLater(last_menu_sent, n) ==
    /\ Truthy(last_menu_sent)
    /\ ~FromIsoformatDate(last_menu_sent).raised
    /\ FromIsoformatDate(last_menu_sent).date > CurrentDate(n)

\* The "already sent today" check: a value that does not parse is logged
\* and the body goes on to the sends.
AlreadySent(last_menu_sent, n) ==
    /\ Truthy(last_menu_sent)
    /\ ~FromIsoformatDate(last_menu_sent).raised
    /\ FromIsoformatDate(last_menu_sent).date >= CurrentDate(n)

\* The checks of one loop iteration before the first send: the verdict is
\* "fire", the reason of the continue, or "error" when the record makes the
\* body raise (user_data["flow"] is not a dict).
Cohort(user_data, n) ==
    LET preferred_hour == Get(user_data, "preferred_menu_hour", PyNone)
        last_menu_sent == Get(user_data, "last_menu_sent", PyNoneValue)
    IN  IF IsNone(Get(user_data, "flow", EmptyDict)) THEN "error"
        ELSE IF ~SetupComplete(user_data) THEN "skip_setup"
        ELSE IF ~MenuEnabled(user_data) THEN "skip_disabled"
        ELSE IF ~HourMatches(preferred_hour, n) THEN "skip_hour"
        ELSE IF AlreadySent(last_menu_sent, n) THEN "skip_sent"
        ELSE IF preferred_hour = ManualSentinel THEN "skip_manual"
        ELSE "fire"

\* Mutant: day_count is written back as it was read.
BookkeepingNoIncrement(user_data, n) ==
    LET current_day == Get(Get(user_data, "flow", EmptyDict), "day_count", 0)
        r1 == With(user_data, "flow",
                   [stage |-> "tracking", setup_complete |-> TRUE,
                    day_count |-> current_day])
        r2 == With(r1, "last_menu_sent", Isoformat(n))
        r3 == With(r2, "menu_sent_today", TRUE)
    IN  With(r3, "menu_sent_date", CurrentDate(n))

\* The record handed to save_user after both sends
Bookkeeping(user_data, n) ==
    LET current_day == Get(Get(user_data, "flow", EmptyDict), "day_count", 0)
        r1 == With(user_data, "flow",
                   [stage |-> "tracking", setup_complete |-> TRUE,
                    day_count |-> current_day + 1])
        r2 == With(r1, "last_menu_sent", Isoformat(n))
        r3 == With(r2, "menu_sent_today", TRUE)
    IN  With(r3, "menu_sent_date", CurrentDate(n))

\* continue, or the end of the loop body: the loop goes on with the next user
Continue(i) == i + 1

\* Mutant: an exception ends the loop (it escapes to the outer except).
ExceptEndsLoop(i) == IF i >= 1 THEN NumUsers + 1 ELSE i

\* except Exception as e: logger.error(...); continue
ExceptContinue(i) == i + 1

\* Mutant: the except of a send logs the error and does not continue; the
\* body goes on with its next step for the same user.
SendExceptNoContinue(next, i) == [pc |-> next, idx |-> i]

\* except Exception as e: logger.error(...); continue  of the two sends:
\* the rest of the body is skipped and the loop takes the next user.
SendExcept(next, i) == [pc |-> "loop", idx |-> ExceptContinue(i)]

\* Mutant: the outer try has no except; the exception leaves the job.
OuterExceptMissing == [pc |-> "raised", result |-> "raised"]

\* except Exception as e: logger.error(...) of the outer try: the job
\* returns normally, nothing of the loop has run.
OuterExcept == [pc |-> "idle", result |-> "aborted"]

\* One call of the sweep, as recorded in oplog
Call(op, u, ok) == [op |-> op, user |-> u, ok |-> ok]

\* for user_id, user_data in all_users.items(): the user at position i
UserAt(i) == i

\* The clock one sweep interval later; the day after the last modelled hour
\* is the next calendar day.
Later(c) ==
    IF c.minute + SweepIntervalMinutes < 60
    THEN [c EXCEPT !.minute = c.minute + SweepIntervalMinutes]
    ELSE IF c.hour + 1 \in ClockHours
    THEN [day |-> c.day, hour |-> c.hour + 1, minute |-> 0]
    ELSE [day |-> c.day + 1, hour |-> 8, minute |-> 0]

\* job_queue.run_repeating: ten minutes pass; the job of the period that
\* ends may or may not have run (a delayed or restarted process misses it).
Tick ==
    /\ pc = "idle"
    /\ Later(clock).day \in Days
    /\ clock' = Later(clock)
    /\ swept' = FALSE
    /\ oplog' = <<>>
    /\ evaluated' = <<>>
    /\ result' = "none"
    /\ completedToday' = IF Later(clock).day = clock.day THEN completedToday
                          ELSE [u \in Users |-> 0]
    /\ sendFailed' = IF Later(clock).day = clock.day THEN sendFailed
                      ELSE [u \in Users |-> 0]
    /\ now' = Later(clock)
    /\ UNCHANGED <<store, pc, all_users, idx, lastSaved, session, dispatched>>

\* The job starts: now is read, then get_all_users() returns the stored
\* records or raises (the outer except logs it and the job returns).
SweepStart ==
    /\ pc = "idle"
    /\ ~swept
    /\ swept' = TRUE
    /\ now' = clock
    /\ oplog' = <<>>
    /\ evaluated' = <<>>
    /\ \E ok \in BOOLEAN :
          IF ok
          THEN /\ all_users' = store
               /\ idx' = 1
               /\ pc' = "loop"
               /\ result' = "running"
          ELSE /\ result' = OuterExcept.result
               /\ pc' = OuterExcept.pc
               /\ UNCHANGED <<all_users, idx>>
    /\ UNCHANGED <<store, clock, completedToday, lastSaved, sendFailed, session,
                   dispatched>>

\* History: when the loop leaves an iteration in which a send failed, the
\* hour of the sweep is noted for the user (the first failure of the day).
NoteFailure ==
    IF /\ oplog # <<>>
       /\ \E i \in 1..Len(oplog) :
             oplog[i].op \in {"send_calorie", "send_menu"} /\ ~oplog[i].ok
       /\ sendFailed[oplog[1].user] = 0
    THEN [sendFailed EXCEPT ![oplog[1].user] = now.hour]
    ELSE sendFailed

\* The head of the for loop and the checks of the body up to the first send.
Evaluate ==
    /\ pc = "loop"
    /\ IF idx > NumUsers
       THEN /\ pc' = "idle"
            /\ result' = "completed"
            /\ oplog' = <<>>
            /\ evaluated' = <<>>
            /\ idx' = 1
            /\ all_users' = store
       ELSE /\ evaluated' = Append(evaluated, UserAt(idx))
            /\ oplog' = <<>>
            /\ IF Cohort(all_users[UserAt(idx)], now) = "fire"
               THEN pc' = "send_calorie" /\ idx' = idx
               ELSE IF Cohort(all_users[UserAt(idx)], now) = "error"
               THEN pc' = "loop" /\ idx' = ExceptContinue(idx)
               ELSE pc' = "loop" /\ idx' = Continue(idx)
            /\ UNCHANGED <<result, all_users>>
    /\ sendFailed' = NoteFailure
    /\ UNCHANGED <<store, clock, swept, now, completedToday, lastSaved, session,
                   dispatched>>

\* await context.bot.send_message(chat_id=user_id, text=calorie_msg)
SendCalorie ==
    /\ pc = "send_calorie"
    /\ \E ok \in BOOLEAN :
          /\ oplog' = Append(oplog, Call("send_calorie", UserAt(idx), ok))
          /\ IF ok THEN pc' = "get_chat" /\ idx' = idx
                   ELSE /\ pc' = SendExcept("send_menu", idx).pc
                        /\ idx' = SendExcept("send_menu", idx).idx
    /\ UNCHANGED <<store, clock, swept, now, all_users, evaluated, result,
                   completedToday, lastSaved, sendFailed, session, dispatched>>

\* chat = await context.bot.get_chat(user_id); a failure is logged
GetChat ==
    /\ pc = "get_chat"
    /\ \E ok \in BOOLEAN :
          /\ oplog' = Append(oplog, Call("get_chat", UserAt(idx), ok))
          /\ pc' = IF ok THEN "pin_message" ELSE "send_menu"
    /\ UNCHANGED <<store, clock, swept, now, all_users, idx, evaluated, result,
                   completedToday, lastSaved, sendFailed, session, dispatched>>

\* await chat.pin_message(calorie_message.message_id); a failure is logged
PinMessage ==
    /\ pc = "pin_message"
    /\ \E ok \in BOOLEAN :
          oplog' = Append(oplog, Call("pin_message", UserAt(idx), ok))
    /\ pc' = "send_menu"
    /\ UNCHANGED <<store, clock, swept, now, all_users, idx, evaluated, result,
                   completedToday, lastSaved, sendFailed, session, dispatched>>

\* The second send_message; when it returns, the full send sequence is done.
SendMenu ==
    /\ pc = "send_menu"
    /\ \E ok \in BOOLEAN :
          /\ oplog' = Append(oplog, Call("send_menu", UserAt(idx), ok))
          /\ IF ok
             THEN /\ pc' = "save"
                  /\ idx' = idx
                  /\ completedToday' =
                        [completedToday EXCEPT ![UserAt(idx)] =
                            IF @ < MaxCompleted THEN @ + 1 ELSE @]
             ELSE /\ pc' = SendExcept("save", idx).pc
                  /\ idx' = SendExcept("save", idx).idx
                  /\ UNCHANGED completedToday
    /\ UNCHANGED <<store, clock, swept, now, all_users, evaluated, result,
                   lastSaved, sendFailed, session, dispatched>>

\* The bookkeeping and nutrition_db.save_user(user_id, user_data); when
\* save_user raises, the except of the loop body logs it and continues.
SaveUser ==
    /\ pc = "save"
    /\ LET u == UserAt(idx)
           user_data == Bookkeeping(all_users[u], now)
       IN  \E ok \in BOOLEAN :
             /\ oplog' = Append(oplog, With(Call("save_user", u, ok), "arg", user_data))
             /\ IF ok
                THEN /\ store' = [store EXCEPT ![u] = user_data]
                     /\ lastSaved' = [lastSaved EXCEPT ![u] = user_data]
                     /\ idx' = Continue(idx)
                ELSE /\ idx' = ExceptContinue(idx)
                     /\ UNCHANGED <<store, lastSaved>>
    /\ pc' = "loop"
    /\ UNCHANGED <<clock, swept, now, all_users, evaluated, result,
                   completedToday, sendFailed, session, dispatched>>

\* ------------------------------------------------------ stored records
\* A record that passes every check of the sweep in hour h.
Eligible(h) ==
    [flow |-> [stage |-> "tracking", setup_complete |-> TRUE, day_count |-> 0],
     daily_menu_enabled |-> TRUE,
     preferred_menu_hour |-> h,
     calorie_budget |-> 1800]

\* The records a user may have in the store when the process starts: the
\* eligible record and its variations in the fields the sweep reads.
StoredRecords ==
    LET e == Eligible("08:00")
    IN  { e,
          Eligible("09:00"),
          With(e, "flow", [stage |-> "onboarding", setup_complete |-> FALSE,
                           day_count |-> 0]),
          With(e, "flow", [stage |-> "onboarding"]),
          Without(e, "flow"),
          With(e, "flow", PyNoneValue),
          With(e, "daily_menu_enabled", FALSE),
          Without(e, "daily_menu_enabled"),
          With(e, "preferred_menu_hour", ManualSentinel),
          With(e, "preferred_menu_hour", "8:00"),
          Without(e, "preferred_menu_hour"),
          With(e, "last_menu_sent", PyNoneValue),
          With(e, "last_menu_sent", [text |-> "yesterday"]),
          With(With(e, "flow", [stage |-> "tracking", setup_complete |-> TRUE,
                                day_count |-> 3]),
               "last_menu_sent", [iso |-> <<-1, 8, 0>>]),
          With(e, "last_menu_sent", [iso |-> <<0, 8, 0>>]),
          With(e, "last_menu_sent", [iso |-> <<MaxDay + 1, 8, 0>>]) }

\* No record has been saved by the scheduler yet.
NotSaved == [not_saved |-> TRUE]

NoSession == "NO_SESSION"
NoDispatch == [kind |-> "none"]

SchedInit ==
    /\ store \in [Users -> StoredRecords]
    /\ clock = [day |-> 0, hour |-> 8, minute |-> 0]
    /\ swept = FALSE
    /\ pc = "idle"
    /\ now = clock
    /\ all_users = store
    /\ idx = 1
    /\ oplog = <<>>
    /\ evaluated = <<>>
    /\ result = "none"
    /\ completedToday = [u \in Users |-> 0]
    /\ lastSaved = [u \in Users |-> NotSaved]
    /\ sendFailed = [u \in Users |-> 0]

Init ==
    /\ SchedInit
    /\ session = [u \in Users |-> NoSession]
    /\ dispatched = NoDispatch

Next ==
    \/ Tick
    \/ SweepStart
    \/ Evaluate
    \/ SendCalorie
    \/ GetChat
    \/ PinMessage
    \/ SendMenu
    \/ SaveUser

Spec == Init /\ [][Next]_vars

\* --------------------------------------------------- main(): the handlers
\* The onboarding states, in the order of the states dict.
ConversationStates ==
    << "NAME", "GENDER", "AGE", "HEIGHT", "WEIGHT", "GOAL", "BODY_FAT_CURRENT",
       "BODY_FAT_TARGET_GOAL", "ACTIVITY", "ACTIVITY_TYPES_SELECTION",
       "ACTIVITY_TYPE", "ACTIVITY_FREQUENCY", "ACTIVITY_DURATION",
       "TRAINING_TIME", "CARDIO_GOAL", "STRENGTH_GOAL", "SUPPLEMENTS",
       "SUPPLEMENT_TYPES", "LIMITATIONS", "MIXED_ACTIVITIES", "MIXED_FREQUENCY",
       "MIXED_DURATION", "MIXED_MENU_ADAPTATION", "DIET", "ALLERGIES",
       "WATER_REMINDER_OPT_IN", "SCHEDULE" >>

\* The callback bound to each state, in the same order.
StateCallbacks ==
    << "get_name", "get_gender", "get_age", "get_height", "get_weight",
       "get_goal", "get_body_fat_current", "get_body_fat_target_goal",
       "get_activity", "handle_activity_types_selection", "get_activity_type",
       "get_activity_frequency", "get_activity_duration", "get_training_time",
       "get_cardio_goal", "get_strength_goal", "get_supplements",
       "get_supplement_types", "get_limitations", "get_mixed_activities",
       "get_mixed_frequency", "get_mixed_duration", "get_mixed_menu_adaptation",
       "get_diet", "get_allergies", "set_water_reminder_opt_in", "schedule_menu" >>

StateNames == {ConversationStates[i] : i \in 1..Len(ConversationStates)}
StateIndex(st) == CHOOSE i \in 1..Len(ConversationStates) : ConversationStates[i] = st

\* menu_regex: ^(a|b|c|d|e)$ over the five main-menu buttons
\*   "לקבלת תפריט יומי מותאם אישית", "מה אכלתי היום",
\*   "בניית ארוחה לפי מה שיש לי בבית", "קבלת דוח", "תזכורות על שתיית מים"
MenuTexts ==
    { "lekabalat tafrit yomi mutam ishit", "ma achalti hayom",
      "bniyat arucha lefi ma sheyesh li babayit", "kabalat doch",
      "tizkorot al shtiyat mayim" }

\* r"^<check mark> סיימתי להיום$|^סיימתי( להיום)?[.!]?$"
SummaryTexts ==
    {"[v] siyamti lehayom"} \cup
    {"siyamti" \o opt \o mark : opt \in {"", " lehayom"}, mark \in {"", ".", "!"}}

\* r"^עזרה$"
HelpButtonTexts == {"ezra"}

\* help_action_regex: "שאל שאלה חופשית", "שאלי שאלה חופשית", "מעבר לשאלון אישי"
HelpActionTexts ==
    {"sheal sheela chofshit", "sheali sheela chofshit", "maavar lesheelon ishi"}

\* r"^(כן|לא)$"
YesNoTexts == {"ken", "lo"}

\* pattern=r"^report_(daily|weekly|monthly|smart_feedback)$"
ReportData ==
    {"report_" \o k : k \in {"daily", "weekly", "monthly", "smart_feedback"}}

\* pattern=r"^reset_(confirm|cancel)$"
ResetData == {"reset_" \o k : k \in {"confirm", "cancel"}}

\* filters.Regex(p) for an anchored alternation of literals: re.search
\* finds a match exactly on the texts of the language.
Regex(language, text) == text \in language

LowerLetters == "abcdefghijklmnopqrstuvwxyz"
UpperLetters == "ABCDEFGHIJKLMNOPQRSTUVWXYZ"
Digits == "0123456789"
CharsOf(str) == {SubSeq(str, i, i) : i \in 1..Len(str)}

\* The length of the bot_command entity at offset 0 of a message text: "/"
\* and the letters, digits and underscores after it; 0 when there is none.
CommandChars ==
    CharsOf(LowerLetters) \cup CharsOf(UpperLetters) \cup CharsOf(Digits) \cup {"_"}

RECURSIVE CommandRun(_)
CommandRun(text) ==
    IF text # "" /\ Head(text) \in CommandChars
    THEN 1 + CommandRun(Tail(text))
    ELSE 0

CommandLength(text) ==
    IF text # "" /\ Head(text) = "/" /\ CommandRun(Tail(text)) > 0
    THEN 1 + CommandRun(Tail(text))
    ELSE 0

\* str.lower() of one character and of a text
LowerOf ==
    [c \in CommandChars \cup {"/", " "} |->
        IF c \in CharsOf(UpperLetters)
        THEN LET k == CHOOSE k \in 1..Len(UpperLetters) : SubSeq(UpperLetters, k, k) = c
             IN  SubSeq(LowerLetters, k, k)
        ELSE c]

RECURSIVE Lower(_)
Lower(text) ==
    IF text = "" THEN ""
    ELSE LowerOf[Head(text)] \o Lower(Tail(text))

\* The texts and button payloads users send in the model.
Texts ==
    SummaryTexts \cup YesNoTexts \cup HelpButtonTexts
    \cup { "[v] siyamti lehayom!", "[v] siyamti lehayom.",
           "lekabalat tafrit yomi mutam ishit", "kabalat doch",
           "sheal sheela chofshit",
           "/start", "/help", "/menu", "/reset", "/foo", "/HELP", "/start again",
           "/ start", "achalti tapuach" }

Payloads == {"report_daily", "reset_confirm", "activity_running"}

\* The bot_command entity of each text and its command name in lower
\* case, computed once for the texts of the model.
EntityLength == [t \in Texts |-> CommandLength(t)]
CommandName == [t \in Texts |-> Lower(SubSeq(t, 2, CommandLength(t)))]

\* An update is a text message or a button click.
Message(text) == [kind |-> "message", text |-> text]
CallbackQuery(data) == [kind |-> "callback_query", data |-> data]

\* filters.TEXT
FilterText(update) == update.kind = "message"

\* filters.COMMAND: the message starts with a bot_command entity
FilterCommand(update) == update.kind = "message" /\ EntityLength[update.text] > 0

\* CommandHandler(command, ...).check_update: text[1:entity.length].lower()
\* is the handler's command
CommandMatches(command, update) ==
    /\ FilterCommand(update)
    /\ CommandName[update.text] = command

\* MessageHandler(filters.TEXT & ~filters.COMMAND, ...) of the text states
StateTextFilter(update) == FilterText(update) /\ ~FilterCommand(update)

\* The handlers of one state of the states dict, in order: the kind of update
\* each accepts.
StateHandlerKinds(st) ==
    IF st = "ACTIVITY_TYPES_SELECTION" THEN <<"callback_query">>
    ELSE IF st = "ALLERGIES" THEN <<"text", "callback_query">>
    ELSE <<"text">>

\* Some handler of the state accepts the update (CallbackQueryHandler without
\* a pattern accepts every button click).
StateAccepts(st, update) ==
    \E i \in 1..Len(StateHandlerKinds(st)) :
        \/ StateHandlerKinds(st)[i] = "text" /\ StateTextFilter(update)
        \/ StateHandlerKinds(st)[i] = "callback_query" /\ update.kind = "callback_query"

\* entry_points=[CommandHandler("start", start)]
EntryPoints == << [command |-> "start", callback |-> "start"] >>

\* Mutant: start is an entry point only.
FallbacksHelpOnly == << [command |-> "help", callback |-> "help_command"] >>

\* fallbacks=[CommandHandler("start", start), CommandHandler("help", help_command)]
Fallbacks ==
    << [command |-> "start", callback |-> "start"],
       [command |-> "help", callback |-> "help_command"] >>

\* The callback of the first command handler of the list that accepts the
\* update, "none" when there is none.
RECURSIVE FirstCommand(_, _, _)
FirstCommand(handlers, i, update) ==
    IF i > Len(handlers) THEN "none"
    ELSE IF CommandMatches(handlers[i].command, update) THEN handlers[i].callback
    ELSE FirstCommand(handlers, i + 1, update)

\* ConversationHandler.check_update for the session of the update's user:
\* without a session the entry points are tried; inside a session the
\* handlers of the current state, then the fallbacks.  "none": the
\* ConversationHandler does not take the update.
ConversationCheck(st, update) ==
    IF st = NoSession THEN FirstCommand(EntryPoints, 1, update)
    ELSE IF StateAccepts(st, update) THEN StateCallbacks[StateIndex(st)]
    ELSE FirstCommand(Fallbacks, 1, update)

\* Mutant: the free-text handler is added before the specific ones.
RegisteredFreeTextFirst ==
    << "handle_free_text_input", "handle_daily_choice", "send_summary",
       "handle_report_request", "handle_reset_confirmation", "handle_help",
       "handle_help_action", "handle_update_personal_details_response",
       "help_command", "show_daily_menu", "reset_command", "log_update" >>

\* The handlers added to the application after conv_handler, in the order
\* of the add_handler calls (all of them in group 0).
Registered ==
    << "handle_daily_choice", "send_summary", "handle_report_request",
       "handle_reset_confirmation", "handle_help", "handle_help_action",
       "handle_update_personal_details_response", "help_command",
       "show_daily_menu", "reset_command", "handle_free_text_input",
       "log_update" >>

\* The filter (or pattern, or command) each of them was registered with.
Accepts(handler, update) ==
    CASE handler = "handle_daily_choice" ->
            FilterText(update) /\ Regex(MenuTexts, update.text)
      [] handler = "send_summary" ->
            FilterText(update) /\ Regex(SummaryTexts, update.text)
      [] handler = "handle_report_request" ->
            update.kind = "callback_query" /\ Regex(ReportData, update.data)
      [] handler = "handle_reset_confirmation" ->
            update.kind = "callback_query" /\ Regex(ResetData, update.data)
      [] handler = "handle_help" ->
            FilterText(update) /\ Regex(HelpButtonTexts, update.text)
      [] handler = "handle_help_action" ->
            FilterText(update) /\ Regex(HelpActionTexts, update.text)
      [] handler = "handle_update_personal_details_response" ->
            FilterText(update) /\ Regex(YesNoTexts, update.text)
      [] handler = "help_command" -> CommandMatches("help", update)
      [] handler = "show_daily_menu" -> CommandMatches("menu", update)
      [] handler = "reset_command" -> CommandMatches("reset", update)
      [] handler = "handle_free_text_input" ->
            /\ FilterText(update)
            /\ ~FilterCommand(update)
            /\ ~Regex(MenuTexts, update.text)
            /\ ~Regex(HelpActionTexts, update.text)
            /\ ~Regex(YesNoTexts, update.text)
      [] handler = "log_update" -> update.kind = "message"
      [] OTHER -> FALSE

\* The first handler of a list that accepts the update, "none" when none does.
RECURSIVE FirstMatch(_, _, _)
FirstMatch(handlers, i, update) ==
    IF i > Len(handlers) THEN "none"
    ELSE IF Accepts(handlers[i], update) THEN handlers[i]
    ELSE FirstMatch(handlers, i + 1, update)

\* Application.process_update for group 0: the handlers are asked in the
\* order they were added, conv_handler first; the first one that accepts
\* the update handles it and the others of the group are not asked.
Dispatch(st, update) ==
    IF ConversationCheck(st, update) # "none"
    THEN [via |-> "conversation", handler |-> ConversationCheck(st, update)]
    ELSE [via |-> "application", handler |-> FirstMatch(Registered, 1, update)]

\* The callbacks that run for one update: every handler was added to group
\* 0 (log_update with an explicit group=0), and of one group only the first
\* handler that accepts the update runs.
Invoked(st, update) == {Dispatch(st, update).handler} \ {"none"}

\* ------------------------------------------------- the external handlers
\* The state a callback of the conversation returns, as the design
\* describes the handlers: start (re-)initialises the session at NAME; a
\* state's handler re-prompts (same state) or advances to the next declared
\* state, the last one ending the session; help_command leaves the state
\* or ends the session.
Returns(callback, st) ==
    IF callback = "start" THEN {"NAME"}
    ELSE IF callback = "help_command" THEN {st, NoSession}
    ELSE IF StateIndex(st) = Len(ConversationStates) THEN {st, NoSession}
    ELSE {st, ConversationStates[StateIndex(st) + 1]}

\* The terminal transition: flow.setup_complete = true, flow.stage =
\* "tracking", flow.day_count = 0, persisted via the user store.
TerminalRecord(user_data) ==
    With(user_data, "flow",
         [stage |-> "tracking", setup_complete |-> TRUE, day_count |-> 0])

\* What a callback of the conversation writes to the store: only the
\* terminal transition is described as persisting anything.
Persisted(callback, st, new, user_data) ==
    IF callback = StateCallbacks[Len(StateCallbacks)] /\ st = "SCHEDULE"
       /\ new = NoSession
    THEN TerminalRecord(user_data)
    ELSE user_data

\* ------------------------------------------------------------- the router
\* The updates users send in the model.
Updates == {Message(t) : t \in Texts} \cup {CallbackQuery(d) : d \in Payloads}

\* One update of user u goes through Application.process_update; when the
\* ConversationHandler takes it, the state its callback returns becomes the
\* session's state (END removes the session).
Deliver(u, update) ==
    LET st == session[u]
        d == Dispatch(st, update)
    IN  /\ IF d.via = "conversation"
           THEN \E new \in Returns(d.handler, st) :
                   /\ session' = [session EXCEPT ![u] = new]
                   /\ store' = [store EXCEPT
                                  ![u] = Persisted(d.handler, st, new, @)]
           ELSE UNCHANGED <<session, store>>
        /\ dispatched' = [kind |-> "update", user |-> u, update |-> update,
                          from |-> st, via |-> d.via, handler |-> d.handler,
                          wrote |-> store'[u] # store[u]]
        /\ UNCHANGED <<clock, swept, pc, now, all_users, idx, oplog, evaluated,
                       result, completedToday, lastSaved, sendFailed>>

\* The record of a user who completed the onboarding before and has been
\* tracked for three days.
TrackedRecord ==
    With(With(Eligible("08:00"), "flow",
              [stage |-> "tracking", setup_complete |-> TRUE, day_count |-> 3]),
         "last_menu_sent", [iso |-> <<-1, 8, 0>>])

RouterInit ==
    /\ store \in [Users -> {TrackedRecord, EmptyDict}]
    /\ clock = [day |-> 0, hour |-> 8, minute |-> 0]
    /\ swept = FALSE
    /\ pc = "idle"
    /\ now = clock
    /\ all_users = store
    /\ idx = 1
    /\ oplog = <<>>
    /\ evaluated = <<>>
    /\ result = "none"
    /\ completedToday = [u \in Users |-> 0]
    /\ lastSaved = [u \in Users |-> NotSaved]
    /\ sendFailed = [u \in Users |-> 0]
    /\ session = [u \in Users |-> NoSession]
    /\ dispatched = NoDispatch

RouterNext == \E u \in ChatUsers, update \in Updates : Deliver(u, update)

RouterSpec == RouterInit /\ [][RouterNext]_vars

\* ------------------------------------- the sweep beside event handlers
\* What an event handler may save while a sweep is suspended at a send: an
\* answer of the user (a new calorie budget, the opt-out of the daily menu).
HandlerWrites ==
    { [key |-> "calorie_budget", value |-> 2000],
      [key |-> "daily_menu_enabled", value |-> FALSE] }

\* The positions at which the sweep is suspended in an await (a send, the
\* chat lookup, the pin, the save): the event loop runs handlers meanwhile.
Suspended == pc \in {"send_calorie", "get_chat", "pin_message", "send_menu", "save"}

\* One handler invocation that mutates, run while the sweep is suspended:
\* it reads the user's record and writes it back with the one field
\* changed (read-one, write-one of the user store).
HandlerSave(u, w) ==
    /\ Suspended
    /\ Get(store[u], w.key, PyNone) # w.value
    /\ store' = [store EXCEPT ![u] = With(@, w.key, w.value)]
    /\ UNCHANGED <<clock, swept, pc, now, all_users, idx, oplog, evaluated, result,
                   completedToday, lastSaved, sendFailed, session, dispatched>>

\* The process starts on the last modelled day with users who are set up
\* and opted in, new or tracked for three days.
ConcurrentInit ==
    /\ store \in [Users -> {Eligible("08:00"), TrackedRecord}]
    /\ clock = [day |-> MaxDay, hour |-> 8, minute |-> 0]
    /\ swept = FALSE
    /\ pc = "idle"
    /\ now = clock
    /\ all_users = store
    /\ idx = 1
    /\ oplog = <<>>
    /\ evaluated = <<>>
    /\ result = "none"
    /\ completedToday = [u \in Users |-> 0]
    /\ lastSaved = [u \in Users |-> NotSaved]
    /\ sendFailed = [u \in Users |-> 0]
    /\ session = [u \in Users |-> NoSession]
    /\ dispatched = NoDispatch

ConcurrentNext ==
    \/ Next
    \/ \E u \in Users, w \in HandlerWrites : HandlerSave(u, w)

ConcurrentSpec == ConcurrentInit /\ [][ConcurrentNext]_vars

\* ====================================================== properties: Spec
\* The cohort predicate as the design states it, on the record a sweep read:
\* setup complete, daily menu enabled, preferred hour equal to the sweep's
\* "HH:00", last_menu_sent absent or dated before the sweep's date.
HasSetup(r) ==
    /\ "flow" \in DOMAIN r
    /\ ~IsNone(r.flow)
    /\ "setup_complete" \in DOMAIN r.flow
    /\ r.flow.setup_complete

HasMenuEnabled(r) == "daily_menu_enabled" \in DOMAIN r /\ r.daily_menu_enabled

HourText(n) == IF n.hour = 8 THEN "08:00" ELSE IF n.hour = 9 THEN "09:00"
               ELSE ToString(n.hour) \o ":00"

InPreferredHour(r, n) ==
    "preferred_menu_hour" \in DOMAIN r /\ r.preferred_menu_hour = HourText(n)

NotSentBefore(r, n) ==
    \/ "last_menu_sent" \notin DOMAIN r
    \/ IsNone(r.last_menu_sent)
    \/ "iso" \in DOMAIN r.last_menu_sent /\ r.last_menu_sent.iso[1] < n.day

InCohort(r, n) ==
    HasSetup(r) /\ HasMenuEnabled(r) /\ InPreferredHour(r, n) /\ NotSentBefore(r, n)

OpNames == [i \in 1..Len(oplog) |-> oplog[i].op]
LastCall == oplog[Len(oplog)]

\* C1 (as claimed): for every user and calendar date, at most one run of the
\* scheduler on that date completes the full send sequence (both sends) for
\* the user, whatever the sends, the pin and save_user do.
C1_AtMostOneSequencePerDay == \A u \in Users : completedToday[u] <= 1

\* C4: a sweep makes no call (send, pin, save) for, and leaves the stored
\* record of, every user whose record as read by the sweep has
\* flow.setup_complete false or missing, or daily_menu_enabled false or
\* missing.
C4_NoContactWithoutSetupOrOptIn ==
    result = "running" =>
        /\ \A i \in 1..Len(oplog) :
              HasSetup(all_users[oplog[i].user])
              /\ HasMenuEnabled(all_users[oplog[i].user])
        /\ \A u \in Users :
              ~(HasSetup(all_users[u]) /\ HasMenuEnabled(all_users[u]))
                  => store[u] = all_users[u]

\* A sweep went past a user who lacks setup_complete and is otherwise in the
\* cohort (opted in, in their preferred hour, nothing sent yet).
C4_Witness ==
    /\ result = "running"
    /\ \E u \in Users :
          /\ idx > u
          /\ ~HasSetup(all_users[u])
          /\ HasMenuEnabled(all_users[u])
          /\ InPreferredHour(all_users[u], now)
          /\ NotSentBefore(all_users[u], now)

\* C6: for a user in the cohort whose two sends succeed, the sweep makes,
\* in this order, the calorie-budget send, one pin attempt (get_chat and,
\* when it returns, pin_message), the menu-invitation send and exactly one
\* save_user, whose record has flow = {stage "tracking", setup_complete
\* true, day_count old + 1} and last_menu_sent dated today; the outcome of
\* get_chat and pin_message changes none of this.
C6_FiringSequence ==
    (oplog # <<>> /\ InCohort(all_users[oplog[1].user], now)) =>
        LET r == all_users[oplog[1].user]
            old == IF "day_count" \in DOMAIN r.flow THEN r.flow.day_count ELSE 0
            pinned == <<"send_calorie", "get_chat", "pin_message", "send_menu">>
            unpinned == <<"send_calorie", "get_chat", "send_menu">>
        IN  /\ (LastCall.op = "send_menu" /\ LastCall.ok) =>
                  /\ pc = "save"
                  /\ OpNames \in {pinned, unpinned}
                  /\ oplog[1].ok
            /\ (pc = "loop" /\ \E i \in 1..Len(oplog) :
                                 oplog[i].op = "send_menu" /\ oplog[i].ok) =>
                  /\ OpNames \in {Append(pinned, "save_user"),
                                   Append(unpinned, "save_user")}
                  /\ LastCall.arg.flow = [stage |-> "tracking",
                                          setup_complete |-> TRUE,
                                          day_count |-> old + 1]
                  /\ LastCall.arg.last_menu_sent.iso[1] = now.day
                  /\ (LastCall.ok => store[LastCall.user] = LastCall.arg)

\* A user who was tracked for three days and got yesterday's menu fired
\* today although get_chat failed: the record was saved with day_count 4.
C6_Witness ==
    /\ oplog # <<>>
    /\ LastCall.op = "save_user"
    /\ LastCall.ok
    /\ \E i \in 1..Len(oplog) : oplog[i].op = "get_chat" /\ ~oplog[i].ok
    /\ InCohort(all_users[LastCall.user], now)
    /\ store[LastCall.user].flow.day_count = 4

\* C7: once a sweep fired for a user and its save_user succeeded, a later
\* sweep on the same calendar date that reads the saved record makes no
\* call for the user and leaves the record as it is.
C7_NoRepeatAfterSave ==
    \A u \in Users :
        ( /\ result = "running"
          /\ lastSaved[u] # NotSaved
          /\ all_users[u] = lastSaved[u]
          /\ lastSaved[u].menu_sent_date = now.day )
        => /\ \A i \in 1..Len(oplog) : oplog[i].user # u
           /\ store[u] = all_users[u]

\* A later sweep of the same day, still inside the preferred hour, went
\* past a user whose saved record it read.
C7_Witness ==
    /\ result = "running"
    /\ \E u \in Users :
          /\ idx > u
          /\ lastSaved[u] # NotSaved
          /\ all_users[u] = lastSaved[u]
          /\ lastSaved[u].menu_sent_date = now.day
          /\ InPreferredHour(all_users[u], now)

\* C8: every call a sweep makes is for a user whose preferred_menu_hour is
\* the sweep's "HH:00"; a user with the "ask manually" sentinel gets no call
\* at any hour.
C8_OnlyInPreferredHour ==
    result = "running" =>
        \A i \in 1..Len(oplog) :
            /\ InPreferredHour(all_users[oplog[i].user], now)
            /\ all_users[oplog[i].user].preferred_menu_hour # ManualSentinel

\* A sweep went past a user with the sentinel who is set up and opted in,
\* and made no call.
C8_Witness ==
    /\ result = "running"
    /\ oplog = <<>>
    /\ \E u \in Users :
          /\ idx > u
          /\ HasSetup(all_users[u])
          /\ HasMenuEnabled(all_users[u])
          /\ NotSentBefore(all_users[u], now)
          /\ "preferred_menu_hour" \in DOMAIN all_users[u]
          /\ all_users[u].preferred_menu_hour = ManualSentinel

\* C10: in a sweep the users are evaluated once each, in the order of the
\* collection, whatever happened to the users before (the loop reaches its
\* end only after all of them), and a user in the cohort gets the first
\* send although an earlier user failed.
C10_EveryUserEvaluatedOnce ==
    result = "running" =>
        /\ evaluated = [i \in 1..Len(evaluated) |-> i]
        /\ Len(evaluated) = IF pc = "loop" THEN idx - 1 ELSE idx
        /\ idx <= NumUsers + 1
        /\ (pc = "loop" /\ idx > 1 /\ InCohort(all_users[idx - 1], now)) =>
              /\ oplog # <<>>
              /\ oplog[1] \in {Call("send_calorie", idx - 1, ok) : ok \in BOOLEAN}

\* The loop is at its end: the first user, in the cohort, failed (nothing
\* was saved for them) and the last user fired and was saved.
C10_Witness ==
    /\ result = "running"
    /\ pc = "loop"
    /\ idx = NumUsers + 1
    /\ InCohort(all_users[1], now)
    /\ store[1] = all_users[1]
    /\ oplog # <<>>
    /\ LastCall = With(Call("save_user", NumUsers, TRUE), "arg", store[NumUsers])

\* C11: when get_all_users raises, the sweep makes no call (no send, no
\* save_user) for any user, enters the loop body for none, leaves the store
\* as it was and returns normally; daily_menu_scheduler is never left by an
\* exception, so the job is idle again and the next period can start.
C11_AbortedSweepDoesNothing ==
    /\ pc # "raised"
    /\ result # "raised"
    /\ result = "aborted" =>
          /\ pc = "idle"
          /\ oplog = <<>>
          /\ evaluated = <<>>
          /\ store = all_users

\* get_all_users raised in a sweep at the preferred hour of a user who is
\* in the cohort: nothing was sent or saved.
C11_Witness ==
    /\ result = "aborted"
    /\ swept
    /\ \E u \in Users : InCohort(store[u], now)

\* The sends of the running sweep for its current user that failed.
FailedSends ==
    {i \in 1..Len(oplog) :
        oplog[i].op \in {"send_calorie", "send_menu"} /\ ~oplog[i].ok}

\* C12: when the calorie-budget send or the menu-invitation send fails for
\* a user, the failed send is the sweep's last call for that user: there is
\* no save_user, the stored record is the one the sweep read, and that
\* record still passes every check of the sweep.
C12_FailedSendSkipsBookkeeping ==
    FailedSends # {} =>
        LET u == oplog[1].user
        IN  /\ pc = "loop"
            /\ FailedSends = {Len(oplog)}
            /\ \A i \in 1..Len(oplog) : oplog[i].op # "save_user"
            /\ store[u] = all_users[u]
            /\ Cohort(store[u], now) = "fire"

\* The calorie-budget message was delivered, the menu invitation failed:
\* the record with day_count 3 and yesterday's last_menu_sent is untouched.
C12_Witness ==
    /\ Len(oplog) >= 2
    /\ oplog[1] = Call("send_calorie", oplog[1].user, TRUE)
    /\ LastCall = Call("send_menu", oplog[1].user, FALSE)
    /\ store[oplog[1].user].flow.day_count = 3
    /\ store[oplog[1].user].last_menu_sent = [iso |-> <<-1, 8, 0>>]
\* The handlers of the dispatch rules and the catch-all: every registered
\* handler but the logging tap.
RuleHandlers ==
    {Registered[i] : i \in 1..Len(Registered)} \ {"log_update"}

\* C2 (as claimed): an update of a user with an active session, in whatever
\* onboarding state, is taken by the ConversationHandler (the state's
\* handler or a fallback), never by a handler registered after it.
C2_SessionPreemptsFreeRouting ==
    (dispatched.kind = "update" /\ dispatched.from # NoSession)
        => dispatched.via = "conversation"

\* C3 (as claimed): a text of a user without a session, unrecognised
\* commands included, is handled by a dispatch rule or the catch-all, and
\* the matchers of two different rules never both accept it.
C3_ExactlyOneRuleClaimsText ==
    ( /\ dispatched.kind = "update"
      /\ dispatched.from = NoSession
      /\ dispatched.update.kind = "message" )
    => /\ dispatched.handler \notin {"none", "log_update"}
       /\ Cardinality({h \in RuleHandlers : Accepts(h, dispatched.update)}) <= 1

\* The /start events of the model.
StartTexts == {"/start", "/start again"}

\* C5: from every onboarding state a /start event goes to the start handler
\* of the conversation, the session is at NAME afterwards and the restart
\* writes nothing to the user's stored record.
C5_RestartResetsSession ==
    ( /\ dispatched.kind = "update"
      /\ dispatched.from # NoSession
      /\ dispatched.update.kind = "message"
      /\ dispatched.update.text \in StartTexts )
    => /\ dispatched.via = "conversation"
       /\ dispatched.handler = "start"
       /\ session[dispatched.user] = "NAME"
       /\ ~dispatched.wrote

\* A user with a record from a completed run restarted from the
\* button-driven state: the session is at NAME and the record is the same.
C5_Witness ==
    /\ dispatched.kind = "update"
    /\ dispatched.from = "ACTIVITY_TYPES_SELECTION"
    /\ dispatched.update = Message("/start")
    /\ dispatched.handler = "start"
    /\ session[dispatched.user] = "NAME"
    /\ store[dispatched.user] = TrackedRecord

\* The texts the claim lists for the end-of-day matcher: the three texts,
\* each optionally followed by "." or "!".
ClaimedSummaryTexts ==
    {base \o mark : base \in {"[v] siyamti lehayom", "siyamti", "siyamti lehayom"},
                    mark \in {"", ".", "!"}}

\* C9 (as claimed): without a session each of the listed texts goes to
\* send_summary.
C9_ListedTextsGoToSummary ==
    ( /\ dispatched.kind = "update"
      /\ dispatched.from = NoSession
      /\ dispatched.update.kind = "message"
      /\ dispatched.update.text \in ClaimedSummaryTexts )
    => dispatched.handler = "send_summary"

\* C9 (amended): without a session the text with the check mark exactly,
\* and "siyamti" and "siyamti lehayom" optionally followed by "." or "!",
\* go to send_summary and not to handle_free_text_input, whose matcher
\* accepts them too: the rule registered first wins.
C9_SummaryBeforeFreeText ==
    ( /\ dispatched.kind = "update"
      /\ dispatched.from = NoSession
      /\ dispatched.update.kind = "message"
      /\ dispatched.update.text \in
            ClaimedSummaryTexts \ {"[v] siyamti lehayom.", "[v] siyamti lehayom!"} )
    => /\ dispatched.handler = "send_summary"
       /\ Accepts("handle_free_text_input", dispatched.update)

\* "siyamti!" of a user without a session went to send_summary.
C9_Witness ==
    /\ dispatched.kind = "update"
    /\ dispatched.from = NoSession
    /\ dispatched.update = Message("siyamti!")
    /\ dispatched.handler = "send_summary"

\* flow.day_count of a stored record (0 when there is none yet).
DayCountOf(r) == Get(Get(r, "flow", EmptyDict), "day_count", 0)

\* C13 (as claimed): whatever the conversation does (start, restart, the
\* terminal transition, also of a user who completes the onboarding a
\* second time), a user's stored flow.day_count never decreases and
\* flow.setup_complete never goes from true to false.
C13_DayCountAndSetupMonotonic ==
    [][\A u \in Users :
          /\ DayCountOf(store'[u]) >= DayCountOf(store[u])
          /\ SetupComplete(store[u]) => SetupComplete(store'[u])]_vars

\* The handlers added before the free-text catch-all.
EarlierHandlers ==
    {Registered[i] : i \in 1..Len(Registered)}
        \ {"handle_free_text_input", "log_update"}

\* C14 (as claimed): the matcher of the free-text catch-all accepts a text
\* exactly when the matcher of no handler added before it does, so no text
\* is accepted by both.
C14_CatchAllIsComplement ==
    (dispatched.kind = "update" /\ dispatched.update.kind = "message") =>
        ( Accepts("handle_free_text_input", dispatched.update)
          <=> \A h \in EarlierHandlers : ~Accepts(h, dispatched.update) )

\* The handler table without the logging tap.
WithoutTap == SubSeq(Registered, 1, Len(Registered) - 1)

\* C15 (as claimed): every update, whichever handler takes it, also runs
\* log_update, and the handler that takes it is the one that would take it
\* if log_update were not registered.
C15_TapObservesEveryEvent ==
    dispatched.kind = "update" =>
        /\ "log_update" \in Invoked(dispatched.from, dispatched.update)
        /\ (dispatched.via = "application" /\ dispatched.handler # "log_update")
              => dispatched.handler = FirstMatch(WithoutTap, 1, dispatched.update)

\* The sends of the running sweep that were delivered.
DeliveredSends ==
    {i \in 1..Len(oplog) :
        oplog[i].op \in {"send_calorie", "send_menu"} /\ oplog[i].ok}

\* C16 (as claimed): after a sweep in which a send to a user failed, no
\* later sweep of the same calendar day delivers a scheduler message to
\* that user.
C16_NoMessageBeforeNextDay ==
    \A i \in DeliveredSends : sendFailed[oplog[i].user] = 0

\* C16 (amended): after a sweep in which a send to a user failed, every
\* send to that user on the same day is made by a sweep inside the user's
\* preferred hour, the clock hour of the failed sweep; once that hour has
\* passed there is none before the following day.
C16_RetryOnlyInsidePreferredHour ==
    \A i \in 1..Len(oplog) :
        ( /\ oplog[i].op \in {"send_calorie", "send_menu"}
          /\ sendFailed[oplog[i].user] # 0 )
        => /\ now.hour = sendFailed[oplog[i].user]
           /\ InPreferredHour(all_users[oplog[i].user], now)

\* Ten minutes after a sweep whose send failed, still inside the
\* preferred hour, the calorie-budget message was delivered again.
C16_Witness ==
    /\ oplog # <<>>
    /\ oplog[1] = Call("send_calorie", oplog[1].user, TRUE)
    /\ sendFailed[oplog[1].user] = now.hour
    /\ now.minute >= SweepIntervalMinutes

\* The record holds a last_menu_sent that is a timestamp.
HasSentDate(r) ==
    "last_menu_sent" \in DOMAIN r /\ "iso" \in DOMAIN r.last_menu_sent

\* C17: whenever a step of the scheduler changes a user's stored
\* last_menu_sent that was a timestamp, the date of the new value is
\* strictly later than the date of the old one, and a stored value dated
\* today or later is left as it is.
C17_LastMenuSentOnlyMovesForward ==
    [][\A u \in Users :
          HasSentDate(store[u]) =>
             /\ HasSentDate(store'[u])
             /\ \/ store'[u].last_menu_sent = store[u].last_menu_sent
                \/ /\ store[u].last_menu_sent.iso[1] < clock.day
                   /\ store'[u].last_menu_sent.iso[1] > store[u].last_menu_sent.iso[1]
                   /\ store'[u].last_menu_sent.iso[1] = clock.day]_vars

\* A sweep replaced yesterday's last_menu_sent by today's.
C17_Witness ==
    /\ oplog # <<>>
    /\ LastCall.op = "save_user"
    /\ LastCall.ok
    /\ HasSentDate(all_users[LastCall.user])
    /\ all_users[LastCall.user].last_menu_sent = [iso |-> <<-1, 8, 0>>]
    /\ store[LastCall.user].last_menu_sent.iso[1] = now.day

\* The fields a scheduler firing sets.
BookkeepingFields == {"flow", "last_menu_sent", "menu_sent_today", "menu_sent_date"}

\* C18 (as claimed): the save_user of a firing changes, in the record
\* stored at that moment, only flow, last_menu_sent, menu_sent_today and
\* menu_sent_date; what a handler saved after the sweep's get_all_users is
\* still in the store afterwards.
C18_FiringKeepsHandlerWrites ==
    [][(pc = "save" /\ pc' = "loop") =>
          \A u \in Users :
             \A k \in (DOMAIN store[u]) \ BookkeepingFields :
                k \in DOMAIN store'[u] /\ store'[u][k] = store[u][k]]_vars

\* A save_user of the running sweep is its last call for the user, comes
\* after a delivered calorie-budget send and a delivered menu-invitation
\* send, and there is one at most.
SaveFollowsBothSends ==
    \A i \in 1..Len(oplog) :
        oplog[i].op = "save_user" =>
            /\ i = Len(oplog)
            /\ \E j \in 1..(i - 1) : oplog[j] = Call("send_calorie", oplog[i].user, TRUE)
            /\ \E j \in 1..(i - 1) : oplog[j] = Call("send_menu", oplog[i].user, TRUE)
            /\ \A j \in 1..(i - 1) : oplog[j].op # "save_user"

\* The users the running sweep has entered the loop body for.
Entered == {evaluated[i] : i \in 1..Len(evaluated)}

\* C19 (as claimed): a sweep saves a user only after both sends to that
\* user were delivered in the same sweep, once at most; for a user who is
\* not in the cohort (setup, opt-in, preferred hour, last_menu_sent absent or
\* dated before today) it makes no call and leaves the stored record alone.
C19_NothingOutsideCohort ==
    result = "running" =>
        /\ SaveFollowsBothSends
        /\ \A u \in Entered :
              ~InCohort(all_users[u], now) =>
                 /\ \A i \in 1..Len(oplog) : oplog[i].user # u
                 /\ store[u] = all_users[u]

\* What makes the loop body continue before the first send: setup not
\* complete, no opt-in, another hour than the sweep's, the sentinel, or a
\* last_menu_sent that is a timestamp dated today or later.
Blocked(r, n) ==
    \/ ~HasSetup(r)
    \/ ~HasMenuEnabled(r)
    \/ ~InPreferredHour(r, n)
    \/ r.preferred_menu_hour = ManualSentinel
    \/ HasSentDate(r) /\ r.last_menu_sent.iso[1] >= n.day

\* C19 (amended): as claimed, with the idempotency guard as the code has
\* it: a user is blocked by a last_menu_sent that parses as a timestamp
\* dated today or later; a user in the preferred hour whose last_menu_sent
\* is absent, None or does not parse gets the first send.
C19_NothingForBlockedUsers ==
    result = "running" =>
        /\ SaveFollowsBothSends
        /\ \A u \in Entered :
              IF Blocked(all_users[u], now)
              THEN /\ \A i \in 1..Len(oplog) : oplog[i].user # u
                   /\ store[u] = all_users[u]
              ELSE (pc = "loop" /\ idx = u + 1) =>
                       /\ oplog # <<>>
                       /\ oplog[1].op = "send_calorie"
                       /\ oplog[1].user = u

\* The loop is at its end: the first user was blocked by a last_menu_sent
\* dated today, the last one was saved after both sends.
C19_Witness ==
    /\ result = "running"
    /\ pc = "loop"
    /\ idx = NumUsers + 1
    /\ HasSentDate(all_users[1])
    /\ all_users[1].last_menu_sent.iso[1] = now.day
    /\ InPreferredHour(all_users[1], now)
    /\ store[1] = all_users[1]
    /\ oplog # <<>>
    /\ LastCall = With(Call("save_user", NumUsers, TRUE), "arg", store[NumUsers])

====
